---------------------------- MODULE Spec2Model ----------------------------
(***************************************************************************)
(* taskflow-pro backend: the task / project store, the mongoose hooks and  *)
(* the route handlers of routes/tasks.js and routes/projects.js.           *)
(*                                                                         *)
(* A handler that runs alone is one action: everything it awaits (loads,   *)
(* save hooks, the project-progress recomputation) is part of the action.  *)
(* SpecConc splits the task save into the steps between its awaits.        *)
(***************************************************************************)
EXTENDS Integers, Sequences, FiniteSets, TLC

VARIABLES projects, tasks, last, pc, req, snap, interleaved,
          users, cred, auth, header, calls

vars == <<projects, tasks, last, pc, req, snap, interleaved,
          users, cred, auth, header, calls>>

store == <<projects, tasks>>

conc == <<pc, req, snap, interleaved>>

\* The User collection and the credential of the last request.
session == <<users, cred>>

\* The browser: the auth store, the axios default Authorization header and the
\* store calls awaiting their response.
client == <<auth, header, calls>>

(***************************************************************************)
(* Bounds and input sets.                                                  *)
(***************************************************************************)
MaxDate == 2

MaxMembers == 1

MaxSubtasks == 1

MaxComments == 1

\* Store calls that can await a response at the same time.
MaxCalls == 3

\* completedAt / startedAt of a task that has none (the schema gives no default).
NoDate == 0

\* The 30 days of "created or updated in last 30 days", in the unit of Dates.
RecentWindow == 1

Users == {"u1", "u2", "u3"}

\* What User.findByEmail returns for an unknown email, and the user of no request.
NoUser == "nobody"

ProjectIds == {"p1"}

TaskIds == {"t1", "t2"}

Dates == 1..MaxDate

TaskStatuses == {"todo", "in-progress", "in-review", "completed", "cancelled"}

ProjectStatuses == {"planning", "active", "on-hold", "completed", "archived"}

MemberRoles == {"admin", "member", "viewer"}

(***************************************************************************)
(* Pure helpers.                                                           *)
(***************************************************************************)

\* Math.round of the non-negative quotient a / b (round half up).
MathRound(a, b) == (2 * a + b) \div (2 * b)

\* Math.round((c / t) * 100) in IEEE-754 doubles, for 0 <= c <= t, t > 0.
\* For 0 < c < t the double c / t has the 53-bit significand
\* round(c * 2^(52 + s) / t), where c * 2^s / t lies in [1, 2); eps is its
\* rounding error (ties to even) in units of 1 / (t * 2^(52 + s)). The product
\* with 100 is off the exact 100 * c / t by far less than the distance of a
\* non-half value to the nearest half, so only an exact half n + 1/2 can round
\* differently: it rounds down when the quotient is low enough for the product
\* to land on a double below n + 1/2.
Percentage(c, t) ==
    LET RECURSIVE ShiftMod(_, _, _)
        ShiftMod(x, k, m) == IF k = 0 THEN x % m ELSE ShiftMod((2 * x) % m, k - 1, m)
        RECURSIVE Pow2(_)
        Pow2(k) == IF k = 0 THEN 1 ELSE 2 * Pow2(k - 1)
        RECURSIVE Log2(_)
        Log2(v) == IF v < 2 THEN 0 ELSE 1 + Log2(v \div 2)
        RECURSIVE BinaryScale(_)
        BinaryScale(x) == IF 2 * x >= t THEN 1 ELSE 1 + BinaryScale(2 * x)
        s == BinaryScale(c)
        r == ShiftMod(c, 52 + s, t)
        odd == ShiftMod(c, 52 + s, 2 * t) >= t
        eps == IF r = 0 THEN 0
               ELSE IF 2 * r < t THEN 0 - r
               ELSE IF 2 * r > t THEN t - r
               ELSE IF odd THEN t - r ELSE 0 - r
        n == (100 * c) \div t
        rem == (100 * c) % t
        p == Log2(2 * n + 1) - 1
        hb == IF Pow2(p + 1) = 2 * n + 1 THEN p - 1 ELSE p
    IN  IF c = 0 THEN 0
        ELSE IF c = t THEN 100
        ELSE IF 2 * rem # t THEN (IF 2 * rem > t THEN n + 1 ELSE n)
        ELSE IF eps >= 0 THEN n + 1
        ELSE IF 200 * (0 - eps) <= t * Pow2(s + hb) THEN n + 1 ELSE n

Has(body, field) == field \in DOMAIN body

Restrict(f, D) == [x \in D |-> f[x]]

RECURSIVE SumProgress(_, _)
SumProgress(ts, S) ==
    IF S = {} THEN 0
    ELSE LET t == CHOOSE x \in S : TRUE
         IN  ts[t].progress + SumProgress(ts, S \ {t})

\* Task.find({ project: p })
TasksOf(ts, p) == {t \in DOMAIN ts : ts[t].project = p}

(***************************************************************************)
(* models/Project.js                                                       *)
(***************************************************************************)
MemberUsers(project) == {project.members[i].user : i \in DOMAIN project.members}

\* Variants of isMember that the membership claims must tell from it: one
\* forgets the owner, one admits everybody.
isMemberListedOnly(project, userId) ==
    \E i \in DOMAIN project.members : project.members[i].user = userId

isMemberAnyone(project, userId) == TRUE

isMember(project, userId) ==
    \/ \E i \in DOMAIN project.members : project.members[i].user = userId
    \/ project.owner = userId

\* Array.prototype.find: the first entry of the user.
FirstMember(project, userId) ==
    LET idx == {i \in DOMAIN project.members : project.members[i].user = userId}
    IN  project.members[CHOOSE i \in idx : \A j \in idx : i <= j]

\* A variant of getUserRole that looks the user up in the members list first.
getUserRoleMembersFirst(project, userId) ==
    IF userId \in MemberUsers(project) THEN FirstMember(project, userId).role
    ELSE IF project.owner = userId THEN "owner"
    ELSE "null"

getUserRole(project, userId) ==
    IF project.owner = userId THEN "owner"
    ELSE IF userId \in MemberUsers(project) THEN FirstMember(project, userId).role
    ELSE "null"

ProjectPreSave(project) ==
    LET c == IF project.progress < 0 THEN [project EXCEPT !.progress = 0]
             ELSE IF project.progress > 100 THEN [project EXCEPT !.progress = 100]
             ELSE project
    IN  IF c.progress = 100 /\ c.status # "completed"
        THEN [c EXCEPT !.status = "completed"]
        ELSE IF c.progress > 0 /\ c.status = "planning"
        THEN [c EXCEPT !.status = "active"]
        ELSE c

\* addMember up to its save: the list after the push; the caller handles the throw.
addMemberThrows(project, userId) == userId \in MemberUsers(project)

addMember(project, userId, role) ==
    ProjectPreSave([project EXCEPT
        !.members = Append(@, [user |-> userId, role |-> role])])

removeMember(project, userId) ==
    ProjectPreSave([project EXCEPT
        !.members = SelectSeq(@, LAMBDA m : m.user # userId)])

(***************************************************************************)
(* models/Task.js                                                          *)
(***************************************************************************)
completedSubtasksCount(task) ==
    Cardinality({i \in DOMAIN task.subtasks : task.subtasks[i]})

\* A variant of subtasksProgress that truncates instead of rounding.
subtasksProgressTruncated(task) ==
    IF Len(task.subtasks) = 0 THEN 100
    ELSE (completedSubtasksCount(task) * 100) \div Len(task.subtasks)

subtasksProgress(task) ==
    IF Len(task.subtasks) = 0 THEN 100
    ELSE Percentage(completedSubtasksCount(task), Len(task.subtasks))

\* TaskSchema.pre("save"); statusModified is this.isModified("status").
TaskPreSave(task, statusModified, date) ==
    LET a == IF statusModified
             THEN IF task.status = "completed" /\ task.completedAt = NoDate
                  THEN [task EXCEPT !.completedAt = date, !.progress = 100]
                  ELSE IF task.status = "in-progress" /\ task.startedAt = NoDate
                  THEN [task EXCEPT !.startedAt = date]
                  ELSE task
             ELSE task
    IN  IF a.status = "completed" THEN [a EXCEPT !.progress = 100]
        ELSE IF a.status = "todo" THEN [a EXCEPT !.progress = 0]
        ELSE a

\* A variant of averageProgress that forgets the division.
averageProgressUndivided(ts, S) == SumProgress(ts, S)

\* The mean the post-save hook computes from the tasks it read.
averageProgress(ts, S) == MathRound(SumProgress(ts, S), Cardinality(S))

\* TaskSchema.post("save"): the projects after the recomputation for project p.
\* findByIdAndUpdate runs no Project hook and does nothing for a missing project.
TaskPostSave(ps, ts, p) ==
    IF TasksOf(ts, p) # {} /\ p \in DOMAIN ps
    THEN [ps EXCEPT ![p].progress = averageProgress(ts, TasksOf(ts, p))]
    ELSE ps

\* timestamps: true.  The pre-save hook the option installs runs before the
\* schema's own and sets updatedAt when the document is new or modified.
Timestamped(task, modified, date) ==
    IF modified THEN [task EXCEPT !.updatedAt = date] ELSE task

\* doc.save() of a task that runs alone: pre hooks, write, post hook.  The
\* document is modified when an assigned value differs from the stored one.
SaveTask(ps, ts, t, task, statusModified, date) ==
    LET modified == t \notin DOMAIN ts \/ task # ts[t]
        saved == TaskPreSave(Timestamped(task, modified, date), statusModified, date)
        ts2 == (t :> saved) @@ ts
    IN  <<TaskPostSave(ps, ts2, saved.project), ts2>>


(***************************************************************************)
(* The response of the request a step served.                              *)
(***************************************************************************)
\* valid: the request passed the route's express-validator rules.
Response(op, u, id, target, valid, code) ==
    last' = [op |-> op, user |-> u, id |-> id, target |-> target,
             valid |-> valid, code |-> code]

RespondMember(op, u, id, target, code) == Response(op, u, id, target, TRUE, code)

Respond(op, u, id, code) == RespondMember(op, u, id, NoUser, code)

RejectMember(op, u, id, target, code) ==
    /\ RespondMember(op, u, id, target, code)
    /\ UNCHANGED store

Reject(op, u, id, code) ==
    /\ Respond(op, u, id, code)
    /\ UNCHANGED store

\* if (!errors.isEmpty()) return res.status(400)
RejectInvalid(op, u, id, target) ==
    /\ Response(op, u, id, target, FALSE, 400)
    /\ UNCHANGED store

(***************************************************************************)
(* routes/tasks.js                                                         *)
(***************************************************************************)

\* A variant of NewTask that assigns every task to its creator.
NewTaskAssignedToCreator(u, body) ==
    [project |-> body.project,
     creator |-> u,
     assignee |-> u,
     status |-> IF Has(body, "status") THEN body.status ELSE "todo",
     progress |-> 0,
     subtasks |-> <<>>,
     comments |-> <<>>,
     completedAt |-> NoDate,
     startedAt |-> NoDate,
     updatedAt |-> NoDate,
     dueDate |-> IF Has(body, "dueDate") THEN body.dueDate ELSE NoDate,
     dependencies |-> {},
     isArchived |-> FALSE]

\* new Task({...}) of POST /api/tasks: progress, completedAt, startedAt take
\* the schema defaults; status is always passed, so it counts as modified.
NewTask(u, body) ==
    [project |-> body.project,
     creator |-> u,
     assignee |-> IF Has(body, "assignee") THEN body.assignee ELSE u,
     status |-> IF Has(body, "status") THEN body.status ELSE "todo",
     progress |-> 0,
     subtasks |-> <<>>,
     comments |-> <<>>,
     completedAt |-> NoDate,
     startedAt |-> NoDate,
     updatedAt |-> NoDate,
     dueDate |-> IF Has(body, "dueDate") THEN body.dueDate ELSE NoDate,
     dependencies |-> {},
     isArchived |-> FALSE]

\* POST /api/tasks
CreateTask(u, body, date, ids) ==
    LET supplied == IF Has(body, "assignee") THEN body.assignee ELSE NoUser
    IN  IF ~body.valid THEN RejectInvalid("createTask", u, body.project, supplied)
        ELSE IF body.project \notin DOMAIN projects
        THEN RejectMember("createTask", u, body.project, supplied, 404)
        ELSE IF ~isMember(projects[body.project], u)
        THEN RejectMember("createTask", u, body.project, supplied, 403)
        ELSE IF Has(body, "assignee") /\ ~isMember(projects[body.project], body.assignee)
        THEN RejectMember("createTask", u, body.project, supplied, 400)
        ELSE \E t \in ids \ DOMAIN tasks :
                LET r == SaveTask(projects, tasks, t, NewTask(u, body), TRUE, date)
                IN  /\ projects' = r[1]
                    /\ tasks' = r[2]
                    /\ RespondMember("createTask", u, t, supplied, 201)

\* GET /api/tasks/:id
GetTask(u, t) ==
    IF t \notin DOMAIN tasks THEN Reject("getTask", u, t, 404)
    ELSE IF \/ tasks[t].project \notin DOMAIN projects
            \/ ~isMember(projects[tasks[t].project], u)
    THEN Reject("getTask", u, t, 403)
    ELSE Reject("getTask", u, t, 200)

\* A variant of ApplyTaskUpdates that stores the schema default for a field
\* the body leaves out.
ApplyTaskUpdatesOrDefaults(task, body) ==
    [task EXCEPT
        !.assignee = IF Has(body, "assignee") THEN body.assignee ELSE @,
        !.status = IF Has(body, "status") THEN body.status ELSE "todo",
        !.progress = IF Has(body, "progress") THEN body.progress ELSE 0,
        !.dueDate = IF Has(body, "dueDate") THEN body.dueDate ELSE @]

\* The $set of Task.findByIdAndUpdate(id, updates): the fields of the body, as
\* given; no save hook runs.
ApplyTaskUpdates(task, body) ==
    [task EXCEPT
        !.assignee = IF Has(body, "assignee") THEN body.assignee ELSE @,
        !.status = IF Has(body, "status") THEN body.status ELSE @,
        !.progress = IF Has(body, "progress") THEN body.progress ELSE @,
        !.dueDate = IF Has(body, "dueDate") THEN body.dueDate ELSE @]

\* PUT /api/tasks/:id; findByIdAndUpdate also sets updatedAt (timestamps: true).
UpdateTask(u, t, body, date) ==
    IF ~body.valid THEN RejectInvalid("updateTask", u, t, NoUser)
    ELSE IF t \notin DOMAIN tasks THEN Reject("updateTask", u, t, 404)
    ELSE IF \/ tasks[t].project \notin DOMAIN projects
            \/ ~isMember(projects[tasks[t].project], u)
    THEN Reject("updateTask", u, t, 403)
    ELSE IF Has(body, "assignee") /\ ~isMember(projects[tasks[t].project], body.assignee)
    THEN Reject("updateTask", u, t, 400)
    ELSE IF Has(body, "progress") /\ body.progress \notin 0..100
    THEN Reject("updateTask", u, t, 500)
    ELSE /\ tasks' = [tasks EXCEPT ![t] =
                [ApplyTaskUpdates(@, body) EXCEPT !.updatedAt = date]]
         /\ projects' = projects
         /\ last' = [op |-> "updateTask", user |-> u, id |-> t, target |-> NoUser,
                     valid |-> TRUE, code |-> 200, fields |-> DOMAIN body \ {"valid"}]

\* A variant of MayDeleteTask that lets every caller through.
MayDeleteTaskAnyone(project, task, u) == TRUE

\* The second check of DELETE /api/tasks/:id.
MayDeleteTask(project, task, u) ==
    \/ task.creator = u
    \/ getUserRole(project, u) = "owner"
    \/ getUserRole(project, u) = "admin"

\* DELETE /api/tasks/:id
DeleteTask(u, t) ==
    IF t \notin DOMAIN tasks THEN Reject("deleteTask", u, t, 404)
    ELSE IF \/ tasks[t].project \notin DOMAIN projects
            \/ ~isMember(projects[tasks[t].project], u)
    THEN Reject("deleteTask", u, t, 403)
    ELSE IF ~MayDeleteTask(projects[tasks[t].project], tasks[t], u)
    THEN Reject("deleteTask", u, t, 403)
    ELSE /\ tasks' = Restrict(tasks, DOMAIN tasks \ {t})
         /\ projects' = projects
         /\ Respond("deleteTask", u, t, 200)

\* POST /api/tasks/:id/comments
AddComment(u, t, valid, date, cap) ==
    IF ~valid THEN RejectInvalid("addComment", u, t, NoUser)
    ELSE IF t \notin DOMAIN tasks THEN Reject("addComment", u, t, 404)
    ELSE IF \/ tasks[t].project \notin DOMAIN projects
            \/ ~isMember(projects[tasks[t].project], u)
    THEN Reject("addComment", u, t, 403)
    ELSE /\ Len(tasks[t].comments) < cap
         /\ LET r == SaveTask(projects, tasks, t,
                        [tasks[t] EXCEPT !.comments = Append(@, u)], FALSE, date)
            IN  /\ projects' = r[1]
                /\ tasks' = r[2]
         /\ Respond("addComment", u, t, 200)

\* POST /api/tasks/:id/subtasks
AddSubtask(u, t, valid, date, cap) ==
    IF ~valid THEN RejectInvalid("addSubtask", u, t, NoUser)
    ELSE IF t \notin DOMAIN tasks THEN Reject("addSubtask", u, t, 404)
    ELSE IF \/ tasks[t].project \notin DOMAIN projects
            \/ ~isMember(projects[tasks[t].project], u)
    THEN Reject("addSubtask", u, t, 403)
    ELSE /\ Len(tasks[t].subtasks) < cap
         /\ LET r == SaveTask(projects, tasks, t,
                        [tasks[t] EXCEPT !.subtasks = Append(@, FALSE)], FALSE, date)
            IN  /\ projects' = r[1]
                /\ tasks' = r[2]
         /\ Respond("addSubtask", u, t, 200)

\* Variants of updateProgressFromSubtasks: one moves the progress halfway to
\* the subtask percentage, one assigns it also for an empty subtask list.
updateProgressFromSubtasksHalfway(task) ==
    IF Len(task.subtasks) > 0
    THEN [task EXCEPT !.progress = (@ + subtasksProgress(task)) \div 2]
    ELSE task

updateProgressFromSubtasksUnguarded(task) ==
    [task EXCEPT !.progress = subtasksProgress(task)]

\* updateProgressFromSubtasks up to its save.
updateProgressFromSubtasks(task) ==
    IF Len(task.subtasks) > 0
    THEN [task EXCEPT !.progress = subtasksProgress(task)]
    ELSE task

\* task.updateProgressFromSubtasks() called on the stored task t: the
\* assignment and the save it returns.
RecomputeProgress(t, date) ==
    /\ t \in DOMAIN tasks
    /\ LET r == SaveTask(projects, tasks, t,
                   updateProgressFromSubtasks(tasks[t]), FALSE, date)
       IN  /\ projects' = r[1]
           /\ tasks' = r[2]
    /\ Response("updateProgressFromSubtasks", NoUser, t, NoUser, TRUE, 0)

\* PUT /api/tasks/:id/subtasks/:subtaskId: toggleSubtask (a save), then
\* updateProgressFromSubtasks (a second save).
ToggleSubtask(u, t, i, date) ==
    IF t \notin DOMAIN tasks THEN Reject("toggleSubtask", u, t, 404)
    ELSE IF \/ tasks[t].project \notin DOMAIN projects
            \/ ~isMember(projects[tasks[t].project], u)
    THEN Reject("toggleSubtask", u, t, 403)
    ELSE IF i \notin DOMAIN tasks[t].subtasks
    THEN Reject("toggleSubtask", u, t, 404)
    ELSE LET r1 == SaveTask(projects, tasks, t,
                       [tasks[t] EXCEPT !.subtasks[i] = ~@], FALSE, date)
             r2 == SaveTask(r1[1], r1[2], t,
                       updateProgressFromSubtasks(r1[2][t]), FALSE, date)
         IN  /\ projects' = r2[1]
             /\ tasks' = r2[2]
             /\ Respond("toggleSubtask", u, t, 200)

(***************************************************************************)
(* routes/projects.js                                                      *)
(***************************************************************************)

\* new Project({...}) of POST /api/projects, before its save.
NewProject(u, body) ==
    [owner |-> u,
     members |-> <<>>,
     status |-> IF Has(body, "status") THEN body.status ELSE "planning",
     progress |-> 0]

\* POST /api/projects
CreateProject(u, body, ids) ==
    IF ~body.valid THEN RejectInvalid("createProject", u, "new", NoUser)
    ELSE \E p \in ids \ DOMAIN projects :
            /\ projects' = (p :> ProjectPreSave(NewProject(u, body))) @@ projects
            /\ tasks' = tasks
            /\ Respond("createProject", u, p, 201)

\* A variant of MayEditProject that also admits role member.
MayEditProjectOrMember(project, u) ==
    getUserRole(project, u) \in {"owner", "admin", "member"}

\* The permission check of PUT /api/projects/:id and POST /api/projects/:id/members.
MayEditProject(project, u) ==
    LET userRole == getUserRole(project, u)
    IN  ~(userRole = "null" \/ (userRole # "owner" /\ userRole # "admin"))

\* The $set of Project.findByIdAndUpdate(id, updates); no save hook runs.
ApplyProjectUpdates(project, body) ==
    [project EXCEPT
        !.status = IF Has(body, "status") THEN body.status ELSE @,
        !.progress = IF Has(body, "progress") THEN body.progress ELSE @]

\* PUT /api/projects/:id
UpdateProject(u, p, body) ==
    IF ~body.valid THEN RejectInvalid("updateProject", u, p, NoUser)
    ELSE IF p \notin DOMAIN projects THEN Reject("updateProject", u, p, 404)
    ELSE IF ~MayEditProject(projects[p], u) THEN Reject("updateProject", u, p, 403)
    ELSE IF Has(body, "progress") /\ body.progress \notin 0..100
    THEN Reject("updateProject", u, p, 500)
    ELSE /\ projects' = [projects EXCEPT ![p] = ApplyProjectUpdates(@, body)]
         /\ tasks' = tasks
         /\ Respond("updateProject", u, p, 200)

\* A variant of MayDeleteProject that also admits role admin.
MayDeleteProjectOrAdmin(project, u) ==
    getUserRole(project, u) \in {"owner", "admin"}

\* The permission check of DELETE /api/projects/:id.
MayDeleteProject(project, u) == project.owner = u

\* DELETE /api/projects/:id: Task.deleteMany, then Project.findByIdAndDelete.
DeleteProject(u, p) ==
    IF p \notin DOMAIN projects THEN Reject("deleteProject", u, p, 404)
    ELSE IF ~MayDeleteProject(projects[p], u) THEN Reject("deleteProject", u, p, 403)
    ELSE /\ tasks' = Restrict(tasks, DOMAIN tasks \ TasksOf(tasks, p))
         /\ projects' = Restrict(projects, DOMAIN projects \ {p})
         /\ Respond("deleteProject", u, p, 200)

\* POST /api/projects/:id/members; target is the user the email finds, or NoUser.
AddMember(u, p, target, role, valid, cap) ==
    IF ~valid THEN RejectInvalid("addMember", u, p, target)
    ELSE IF p \notin DOMAIN projects THEN RejectMember("addMember", u, p, target, 404)
    ELSE IF ~MayEditProject(projects[p], u)
    THEN RejectMember("addMember", u, p, target, 403)
    ELSE IF target = NoUser THEN RejectMember("addMember", u, p, target, 404)
    ELSE IF addMemberThrows(projects[p], target)
    THEN RejectMember("addMember", u, p, target, 400)
    ELSE /\ Len(projects[p].members) < cap
         /\ projects' = [projects EXCEPT ![p] = addMember(@, target, role)]
         /\ tasks' = tasks
         /\ RespondMember("addMember", u, p, target, 200)

\* A variant of MayRemoveMember without the exception for one's own membership.
MayRemoveMemberManagersOnly(project, u, target) ==
    getUserRole(project, u) \in {"owner", "admin"}

\* The permission check of DELETE /api/projects/:id/members/:userId.
MayRemoveMember(project, u, target) ==
    LET userRole == getUserRole(project, u)
        isRemovingSelf == target = u
    IN  ~(~isRemovingSelf /\ (userRole = "null" \/ (userRole # "owner" /\ userRole # "admin")))

\* A variant of TargetIsOwner that never recognises the owner.
TargetIsOwnerNever(project, target) == FALSE

\* "Cannot remove project owner": the target of the removal is the owner.
TargetIsOwner(project, target) == project.owner = target

\* DELETE /api/projects/:id/members/:userId
RemoveMember(u, p, target) ==
    IF p \notin DOMAIN projects THEN RejectMember("removeMember", u, p, target, 404)
    ELSE IF ~MayRemoveMember(projects[p], u, target)
    THEN RejectMember("removeMember", u, p, target, 403)
    ELSE IF TargetIsOwner(projects[p], target)
    THEN RejectMember("removeMember", u, p, target, 400)
    ELSE /\ projects' = [projects EXCEPT ![p] = removeMember(@, target)]
         /\ tasks' = tasks
         /\ RespondMember("removeMember", u, p, target, 200)

(***************************************************************************)
(* Request bodies: a body is a function whose domain is the fields sent;   *)
(* valid is the outcome of the express-validator rules of the route.       *)
(***************************************************************************)
TaskCreateBodies(S, A) ==
    {Restrict(b, D \cup {"valid", "project"}) :
        b \in [valid : {TRUE}, project : ProjectIds, status : S, assignee : A],
        D \in SUBSET {"status", "assignee"}}

TaskUpdateBodies(S, P, A) ==
    {Restrict(b, D \cup {"valid"}) :
        b \in [valid : {TRUE}, status : S, progress : P, assignee : A],
        D \in SUBSET {"status", "progress", "assignee"}}

ProjectBodies(S, P) ==
    {Restrict(b, D \cup {"valid"}) :
        b \in [valid : {TRUE}, status : S, progress : P],
        D \in SUBSET {"status", "progress"}}

Reqs == {"r1", "r2"}

NoRequest ==
    [op |-> "none", user |-> NoUser, id |-> "none", target |-> NoUser,
     valid |-> TRUE, code |-> 0]

\* A request slot that serves nothing: no user, no in-memory document.
ConcNoRequest == [user |-> NoUser, id |-> "none", doc |-> <<>>, code |-> 0]

\* What req.header("Authorization") carries: nothing, a header that is no
\* Bearer header, "Bearer " without a token, a Bearer token that jwt.verify
\* rejects (malformed, wrong signature), or a token the server signed for user
\* with expiry exp; at is the time of the request.
NoCredential == [kind |-> "none", user |-> NoUser, exp |-> NoDate, at |-> NoDate]

\* Every user is registered and active; no request was authenticated yet.
SessionIdle ==
    /\ users = [u \in Users |-> [isActive |-> TRUE]]
    /\ cred = NoCredential

\* null of the auth store and of the axios header.
Null == "null"

\* A call slot of the store that awaits nothing.
NoCall == [op |-> "none", nested |-> 0, sent |-> Null]

\* The store as created: user null, token null, isAuthenticated false,
\* isLoading true; no header set, no call made.
ClientIdle ==
    /\ auth = [user |-> Null, token |-> Null, isAuthenticated |-> FALSE,
               isLoading |-> TRUE]
    /\ header = Null
    /\ calls = [c \in 1..MaxCalls |-> NoCall]

ConcIdle ==
    /\ pc = [r \in Reqs |-> "idle"]
    /\ req = [r \in Reqs |-> ConcNoRequest]
    /\ snap = [r \in Reqs |-> <<>>]
    /\ interleaved = FALSE

(***************************************************************************)
(* Spec: the whole API, one request at a time, from the empty store, with  *)
(* one project and one task.                                               *)
(***************************************************************************)
Init ==
    /\ projects = <<>>
    /\ tasks = <<>>
    /\ last = NoRequest
    /\ ConcIdle
    /\ SessionIdle
    /\ ClientIdle

ApiTaskIds == {"t1"}

\* User ids are opaque and only compared for equality, so the project is
\* created by one fixed user; the two others remain to be member or stranger.
ApiOwners == {"u1"}

ApiCreateBodies ==
    {[valid |-> TRUE, project |-> "p1"], [valid |-> FALSE, project |-> "p1"]}

ApiUpdateBodies ==
    {[valid |-> TRUE, progress |-> 50], [valid |-> FALSE, progress |-> 50]}

ApiProjectBodies ==
    {[valid |-> TRUE, progress |-> 100], [valid |-> FALSE, progress |-> 100]}

ApiCreateProject ==
    /\ \E u \in ApiOwners, b \in ApiProjectBodies : CreateProject(u, b, ProjectIds)
    /\ UNCHANGED <<conc, session, client>>

ApiUpdateProject ==
    /\ \E u \in Users, p \in ProjectIds, b \in ApiProjectBodies : UpdateProject(u, p, b)
    /\ UNCHANGED <<conc, session, client>>

ApiDeleteProject ==
    /\ \E u \in Users, p \in ProjectIds : DeleteProject(u, p)
    /\ UNCHANGED <<conc, session, client>>

ApiAddMember ==
    /\ \E u \in Users, p \in ProjectIds :
          \/ \E x \in Users \cup {NoUser}, role \in MemberRoles :
                AddMember(u, p, x, role, TRUE, MaxMembers)
          \/ AddMember(u, p, NoUser, "member", FALSE, MaxMembers)
    /\ UNCHANGED <<conc, session, client>>

ApiRemoveMember ==
    /\ \E u \in Users, p \in ProjectIds, x \in Users : RemoveMember(u, p, x)
    /\ UNCHANGED <<conc, session, client>>

ApiCreateTask ==
    /\ \E u \in Users, b \in ApiCreateBodies : CreateTask(u, b, 1, ApiTaskIds)
    /\ UNCHANGED <<conc, session, client>>

ApiGetTask ==
    /\ \E u \in Users, t \in ApiTaskIds : GetTask(u, t)
    /\ UNCHANGED <<conc, session, client>>

ApiUpdateTask ==
    /\ \E u \in Users, t \in ApiTaskIds, b \in ApiUpdateBodies : UpdateTask(u, t, b, 1)
    /\ UNCHANGED <<conc, session, client>>

ApiDeleteTask ==
    /\ \E u \in Users, t \in ApiTaskIds : DeleteTask(u, t)
    /\ UNCHANGED <<conc, session, client>>

ApiAddComment ==
    /\ \E u \in Users, t \in ApiTaskIds, valid \in BOOLEAN :
          AddComment(u, t, valid, 1, MaxComments)
    /\ UNCHANGED <<conc, session, client>>

ApiAddSubtask ==
    /\ \E u \in Users, t \in ApiTaskIds, valid \in BOOLEAN :
          AddSubtask(u, t, valid, 1, MaxSubtasks)
    /\ UNCHANGED <<conc, session, client>>

ApiToggleSubtask ==
    /\ \E u \in Users, t \in ApiTaskIds, i \in 1..(MaxSubtasks + 1) :
          ToggleSubtask(u, t, i, 1)
    /\ UNCHANGED <<conc, session, client>>

Next ==
    \/ ApiCreateProject
    \/ ApiUpdateProject
    \/ ApiDeleteProject
    \/ ApiAddMember
    \/ ApiRemoveMember
    \/ ApiCreateTask
    \/ ApiGetTask
    \/ ApiUpdateTask
    \/ ApiDeleteTask
    \/ ApiAddComment
    \/ ApiAddSubtask
    \/ ApiToggleSubtask

Spec == Init /\ [][Next]_vars

(***************************************************************************)
(* SpecRules: the task operations on the tasks of one project, requested   *)
(* by its owner one at a time.  The store starts as POST /api/projects by  *)
(* u1 leaves it.                                                           *)
(***************************************************************************)
RulesUsers == {"u1"}

RulesTaskIds == {"t1"}

RulesProgress == {0, 40, 60, 100}

InitRules ==
    /\ projects = ("p1" :> ProjectPreSave(NewProject("u1", [valid |-> TRUE])))
    /\ tasks = <<>>
    /\ last = NoRequest
    /\ ConcIdle
    /\ SessionIdle
    /\ ClientIdle

RulesCreateBodies == TaskCreateBodies(TaskStatuses, RulesUsers)

RulesUpdateBodies == TaskUpdateBodies(TaskStatuses, RulesProgress, RulesUsers)

RulesCreateTask ==
    /\ \E u \in RulesUsers, b \in RulesCreateBodies, d \in Dates :
          CreateTask(u, b, d, RulesTaskIds)
    /\ UNCHANGED <<conc, session, client>>

RulesUpdateTask ==
    /\ \E u \in RulesUsers, t \in RulesTaskIds, b \in RulesUpdateBodies, d \in Dates :
          UpdateTask(u, t, b, d)
    /\ UNCHANGED <<conc, session, client>>

RulesDeleteTask ==
    /\ \E u \in RulesUsers, t \in RulesTaskIds : DeleteTask(u, t)
    /\ UNCHANGED <<conc, session, client>>

RulesAddComment ==
    /\ \E u \in RulesUsers, t \in RulesTaskIds, d \in Dates :
          AddComment(u, t, TRUE, d, MaxComments)
    /\ UNCHANGED <<conc, session, client>>

RulesAddSubtask ==
    /\ \E u \in RulesUsers, t \in RulesTaskIds, d \in Dates :
          AddSubtask(u, t, TRUE, d, MaxSubtasks)
    /\ UNCHANGED <<conc, session, client>>

RulesToggleSubtask ==
    /\ \E u \in RulesUsers, t \in RulesTaskIds, i \in 1..MaxSubtasks, d \in Dates :
          ToggleSubtask(u, t, i, d)
    /\ UNCHANGED <<conc, session, client>>

NextRules ==
    \/ RulesCreateTask
    \/ RulesUpdateTask
    \/ RulesDeleteTask
    \/ RulesAddComment
    \/ RulesAddSubtask
    \/ RulesToggleSubtask

SpecRules == InitRules /\ [][NextRules]_vars

(***************************************************************************)
(* SpecConc: two POST /api/tasks requests served concurrently.  A request  *)
(* yields at every await: after Project.findById (ConcBegin runs the       *)
(* checks, new Task and the pre-save hook, up to the insert), after the    *)
(* insert (ConcSave), after the hook's Task.find (ConcRead) and after its  *)
(* Project.findByIdAndUpdate (ConcWrite).                                  *)
(***************************************************************************)
ConcUsers == {"u1", "u2"}

ConcCreateBodies == TaskCreateBodies(TaskStatuses, {"u1"})

InitConc ==
    /\ projects = ("p1" :> ProjectPreSave(NewProject("u1", [valid |-> TRUE])))
    /\ tasks = <<>>
    /\ last = NoRequest
    /\ ConcIdle
    /\ SessionIdle
    /\ ClientIdle

ConcFinish(r, u, code) ==
    /\ pc' = [pc EXCEPT ![r] = "done"]
    /\ req' = [req EXCEPT ![r] = [ConcNoRequest EXCEPT !.user = u, !.code = code]]

\* The ids new Task() has given to documents that are not inserted yet.
ConcHeldIds == {req[r].id : r \in Reqs}

ConcBegin(r) ==
    /\ pc[r] = "idle"
    /\ \E u \in ConcUsers, body \in ConcCreateBodies, date \in Dates :
          IF ~body.valid THEN ConcFinish(r, u, 400)
          ELSE IF body.project \notin DOMAIN projects THEN ConcFinish(r, u, 404)
          ELSE IF ~isMember(projects[body.project], u) THEN ConcFinish(r, u, 403)
          ELSE IF /\ Has(body, "assignee")
                  /\ ~isMember(projects[body.project], body.assignee)
          THEN ConcFinish(r, u, 400)
          ELSE \E t \in TaskIds \ (DOMAIN tasks \cup ConcHeldIds) :
                  /\ pc' = [pc EXCEPT ![r] = "save"]
                  /\ req' = [req EXCEPT ![r] =
                        [user |-> u, id |-> t, code |-> 0,
                         doc |-> TaskPreSave(Timestamped(NewTask(u, body), TRUE, date),
                                             TRUE, date)]]
    /\ UNCHANGED <<projects, tasks, last, snap, interleaved, session, client>>

\* The insert of task.save().
ConcSave(r) ==
    /\ pc[r] = "save"
    /\ tasks' = (req[r].id :> req[r].doc) @@ tasks
    /\ pc' = [pc EXCEPT ![r] = "read"]
    /\ UNCHANGED <<projects, last, req, snap, interleaved, session, client>>

\* const tasks = await Task.find({ project: doc.project }).  The recomputation
\* interleaves with another one that has read and not yet written.
ConcRead(r) ==
    /\ pc[r] = "read"
    /\ snap' = [snap EXCEPT ![r] =
          [t \in TasksOf(tasks, req[r].doc.project) |-> [progress |-> tasks[t].progress]]]
    /\ interleaved' = (interleaved \/ \E o \in Reqs \ {r} : pc[o] = "write")
    /\ pc' = [pc EXCEPT ![r] = "write"]
    /\ UNCHANGED <<projects, tasks, last, req, session, client>>

\* if (tasks.length > 0) await Project.findByIdAndUpdate(...); then the response.
ConcWrite(r) ==
    /\ pc[r] = "write"
    /\ projects' =
          IF DOMAIN snap[r] # {} /\ req[r].doc.project \in DOMAIN projects
          THEN [projects EXCEPT ![req[r].doc.project].progress =
                    averageProgress(snap[r], DOMAIN snap[r])]
          ELSE projects
    /\ pc' = [pc EXCEPT ![r] = "done"]
    /\ req' = [req EXCEPT ![r].code = 201]
    /\ UNCHANGED <<tasks, last, snap, interleaved, session, client>>

NextConc ==
    \/ \E r \in Reqs : ConcBegin(r)
    \/ \E r \in Reqs : ConcSave(r)
    \/ \E r \in Reqs : ConcRead(r)
    \/ \E r \in Reqs : ConcWrite(r)

SpecConc == InitConc /\ [][NextConc]_vars

(***************************************************************************)
(* Claims checked under SpecRules.                                         *)
(***************************************************************************)

\* C1: every stored task has progress = 100 if and only if its status is
\* "completed".
C1_ProgressHundredIffCompleted ==
    \A t \in DOMAIN tasks :
        (tasks[t].progress = 100) <=> (tasks[t].status = "completed")

\* C2: every stored task whose status is "todo" has progress = 0.
C2_TodoHasProgressZero ==
    \A t \in DOMAIN tasks : tasks[t].status = "todo" => tasks[t].progress = 0

\* C3: completedAt is set once a task's status has become "completed" (at
\* creation or by a later status update), and once set it is never cleared or
\* overwritten while the task exists.
C3_CompletedAtSetOnceAndKept ==
    /\ [](\A t \in DOMAIN tasks :
            tasks[t].status = "completed" => tasks[t].completedAt # NoDate)
    /\ [][\A t \in DOMAIN tasks \cap DOMAIN tasks' :
            tasks[t].completedAt # NoDate =>
                tasks'[t].completedAt = tasks[t].completedAt]_vars

\* The task-writing operations C4 names.
TaskWrites == {"createTask", "updateTask", "deleteTask", "toggleSubtask"}

\* The mean of the progress of the tasks stored for project p, rounded to the
\* nearest integer.
RoundedMeanOf(p) ==
    MathRound(SumProgress(tasks, TasksOf(tasks, p)), Cardinality(TasksOf(tasks, p)))

\* C4: after every task-writing operation (create, update, delete, subtask
\* toggle) has been served, the stored progress of every project that has
\* tasks is the mean of their progress, rounded to the nearest integer.
C4_ProjectProgressIsMeanAfterTaskWrite ==
    (last.op \in TaskWrites /\ last.code \in {200, 201}) =>
        \A p \in DOMAIN projects :
            TasksOf(tasks, p) # {} => projects[p].progress = RoundedMeanOf(p)

(***************************************************************************)
(* Claims checked under SpecConc.                                          *)
(***************************************************************************)
ConcAllDone == \A r \in Reqs : pc[r] = "done"

\* C5: once both task saves have finished, the stored project progress is the
\* rounded mean of the project's tasks provided the two recomputations (read
\* the tasks, write the mean) did not interleave.
C5_MeanUnlessInterleaved ==
    (ConcAllDone /\ ~interleaved) =>
        \A p \in DOMAIN projects :
            TasksOf(tasks, p) # {} => projects[p].progress = RoundedMeanOf(p)

\* C5, the other half: two interleaved recomputations have finished and the
\* stored progress is not the mean of the final task set (the last writer won).
C5_StaleProgressAfterInterleaving ==
    /\ ConcAllDone
    /\ interleaved
    /\ \E p \in DOMAIN projects :
          TasksOf(tasks, p) # {} /\ projects[p].progress # RoundedMeanOf(p)

(***************************************************************************)
(* Claims checked under Spec.  A step of Spec serves the request that      *)
(* last' records; the unprimed store is the store the request found.       *)
(***************************************************************************)

\* Owner or listed member, as the data model defines membership.
ListedOrOwner(project, u) ==
    \/ project.owner = u
    \/ \E i \in 1..Len(project.members) : project.members[i].user = u

\* Role owner or admin on the project.
OwnerOrAdmin(project, u) ==
    \/ project.owner = u
    \/ \E i \in 1..Len(project.members) :
          project.members[i].user = u /\ project.members[i].role = "admin"

TaskOps ==
    {"getTask", "updateTask", "deleteTask", "addComment", "addSubtask", "toggleSubtask"}

\* The step serves a request of one of the operations ops for a stored task.
ServesTask(ops) == last'.op \in ops /\ last'.id \in DOMAIN tasks

\* The step serves a request of one of the operations ops for a stored project.
ServesProject(ops) == last'.op \in ops /\ last'.id \in DOMAIN projects

C7_StrangerDeniedOnEveryTaskOperation ==
    [][(/\ ServesTask(TaskOps)
        /\ ~ListedOrOwner(projects[tasks[last'.id].project], last'.user)) =>
          /\ last'.valid => last'.code = 403
          /\ last'.code \in {400, 403}
          /\ UNCHANGED store
       ]_vars

\* C7 witness: the task's creator, removed from the project since, was denied
\* the toggle of a subtask of the task.
C7_RemovedCreatorDenied ==
    /\ last.op = "toggleSubtask" /\ last.code = 403 /\ last.id \in DOMAIN tasks
    /\ tasks[last.id].creator = last.user
    /\ Len(tasks[last.id].subtasks) > 0
    /\ ~ListedOrOwner(projects[tasks[last.id].project], last.user)

C9_ProjectEditOnlyByOwnerOrAdmin ==
    [][ServesProject({"updateProject", "addMember"}) =>
          LET allowed == OwnerOrAdmin(projects[last'.id], last'.user)
          IN  /\ last'.code = 200 => allowed
              /\ (~allowed /\ last'.valid) => last'.code = 403
              /\ last'.code # 200 => UNCHANGED store
       ]_vars

\* C9 witness: a listed member with role member or viewer was denied adding a
\* member.
C9_PlainMemberDeniedAddMember ==
    /\ last.op = "addMember" /\ last.code = 403 /\ last.id \in DOMAIN projects
    /\ last.target \in Users
    /\ getUserRole(projects[last.id], last.user) \in {"member", "viewer"}

\* C10: a project is deleted, with all its tasks, if and only if the requester
\* is its owner; every other requester, admins included, gets 403 and neither
\* the project nor a task is deleted.
C10_ProjectDeleteOnlyByOwner ==
    [][ServesProject({"deleteProject"}) =>
          LET owner == projects[last'.id].owner = last'.user
          IN  /\ last'.code = 200 <=> owner
              /\ last'.code = 403 <=> ~owner
              /\ owner =>
                    /\ last'.id \notin DOMAIN projects'
                    /\ \A t \in DOMAIN tasks' : tasks'[t].project # last'.id
              /\ ~owner => UNCHANGED store
       ]_vars

\* C10 witness: an admin of a project that has a task was denied its deletion.
C10_AdminDeniedProjectDelete ==
    /\ last.op = "deleteProject" /\ last.code = 403 /\ last.id \in DOMAIN projects
    /\ getUserRole(projects[last.id], last.user) = "admin"
    /\ TasksOf(tasks, last.id) # {}

\* C16: the assignee of every stored task is the owner or a listed member of
\* the task's project.
C16_AssigneeIsProjectMember ==
    \A t \in DOMAIN tasks :
        tasks[t].project \in DOMAIN projects =>
            ListedOrOwner(projects[tasks[t].project], tasks[t].assignee)

(***************************************************************************)
(* SpecMembers: the membership routes on one project, one request at a     *)
(* time, with room for one member more than MaxMembers.                    *)
(***************************************************************************)
MembersCap == MaxMembers + 1

InitMembers ==
    /\ projects = ("p1" :> ProjectPreSave(NewProject("u1", [valid |-> TRUE])))
    /\ tasks = <<>>
    /\ last = NoRequest
    /\ ConcIdle
    /\ SessionIdle
    /\ ClientIdle

MembersAddMember ==
    /\ \E u \in Users, p \in ProjectIds, x \in Users \cup {NoUser}, role \in MemberRoles,
          valid \in BOOLEAN :
          AddMember(u, p, x, role, valid, MembersCap)
    /\ UNCHANGED <<conc, session, client>>

MembersRemoveMember ==
    /\ \E u \in Users, p \in ProjectIds, x \in Users : RemoveMember(u, p, x)
    /\ UNCHANGED <<conc, session, client>>

NextMembers ==
    \/ MembersAddMember
    \/ MembersRemoveMember

SpecMembers == InitMembers /\ [][NextMembers]_vars

(***************************************************************************)
(* Claims checked under SpecMembers.                                       *)
(***************************************************************************)

\* The members list without the entries of user x.
WithoutUser(members, x) == SelectSeq(members, LAMBDA m : m.user # x)

\* C11: a remove-member request passes the permission check if and only if
\* the requester targets their own membership or has role owner or admin; a
\* requester with role member, viewer or none who targets another user gets
\* 403 and nothing changes; a permitted request whose target is not the owner
\* succeeds and removes exactly the target's entries.
C11_RemoveSelfOrByOwnerAdmin ==
    [][ServesProject({"removeMember"}) =>
          LET project == projects[last'.id]
              permitted == \/ last'.user = last'.target
                           \/ OwnerOrAdmin(project, last'.user)
          IN  /\ last'.code = 403 <=> ~permitted
              /\ ~permitted => UNCHANGED store
              /\ (permitted /\ project.owner # last'.target) =>
                    /\ last'.code = 200
                    /\ projects'[last'.id].members =
                          WithoutUser(project.members, last'.target)
                    /\ projects'[last'.id].owner = project.owner
       ]_vars

\* C11 witness: a listed member with role member or viewer was denied the
\* removal of another listed member.
C11_PlainMemberDeniedRemovingOther ==
    /\ last.op = "removeMember" /\ last.code = 403 /\ last.id \in DOMAIN projects
    /\ last.target # last.user
    /\ last.target \in MemberUsers(projects[last.id])
    /\ getUserRole(projects[last.id], last.user) \in {"member", "viewer"}

\* C12: a remove-member request whose target is the project's owner ends in an
\* error response for every requester, and the project's owner and members
\* list are unchanged.
C12_OwnerNeverRemoved ==
    [][(/\ ServesProject({"removeMember"})
        /\ last'.target = projects[last'.id].owner) =>
          /\ last'.code \in {400, 403}
          /\ UNCHANGED store
       ]_vars

\* C12 witness: the owner asked for their own removal and got the error.
C12_OwnerDeniedRemovingSelf ==
    /\ last.op = "removeMember" /\ last.code = 400 /\ last.id \in DOMAIN projects
    /\ last.user = last.target
    /\ projects[last.id].owner = last.target
    /\ Len(projects[last.id].members) > 0

\* C14: the owner of a project is never present in its members list.
C14_OwnerNeverListed ==
    \A p \in DOMAIN projects :
        \A i \in 1..Len(projects[p].members) :
            projects[p].members[i].user # projects[p].owner

\* The role C15 states for user u on a project.
StatedRole(project, u) ==
    LET idx == {i \in 1..Len(project.members) : project.members[i].user = u}
    IN  IF project.owner = u THEN "owner"
        ELSE IF idx = {} THEN "null"
        ELSE project.members[CHOOSE i \in idx : \A j \in idx : i <= j].role

\* C15: getUserRole returns "owner" for the project's owner whatever the
\* members list contains, otherwise the role of the user's entry in the
\* members list, and null when the user has no entry.
C15_GetUserRole ==
    \A p \in DOMAIN projects :
        \A u \in Users \cup {NoUser} :
            getUserRole(projects[p], u) = StatedRole(projects[p], u)

\* C15 witness: the owner is also listed, with another role, next to a member
\* who is not the owner.
C15_OwnerAlsoListed ==
    \E p \in DOMAIN projects :
        /\ \E i \in 1..Len(projects[p].members) :
              /\ projects[p].members[i].user = projects[p].owner
              /\ projects[p].members[i].role = "viewer"
        /\ \E u \in Users :
              u # projects[p].owner /\ getUserRole(projects[p], u) = "admin"

(***************************************************************************)
(* SpecAddRace: two POST /api/projects/:id/members requests served         *)
(* concurrently.  A request yields at every await: after Project.findById  *)
(* (RaceLoad runs the permission check on the loaded document), after      *)
(* User.findByEmail (RaceFind runs addMember's check and push on the       *)
(* request's own in-memory document) and while save() writes (RaceSave).   *)
(* Mongoose writes a pushed array element as a $push and the other         *)
(* modified paths as a $set; an unmodified path is not written.            *)
(***************************************************************************)
RaceUsers == {"u1", "u2"}

RaceTargets == {"u2", "u3", NoUser}

InitAddRace == InitMembers

\* const project = await Project.findById(req.params.id), then the role check.
RaceLoad(r) ==
    /\ pc[r] = "idle"
    /\ \E u \in RaceUsers, p \in ProjectIds, x \in RaceTargets, role \in MemberRoles :
          IF p \notin DOMAIN projects THEN ConcFinish(r, u, 404)
          ELSE IF ~MayEditProject(projects[p], u) THEN ConcFinish(r, u, 403)
          ELSE /\ pc' = [pc EXCEPT ![r] = "find"]
               /\ req' = [req EXCEPT ![r] =
                     [user |-> u, id |-> p, code |-> 0, doc |-> projects[p],
                      target |-> x, role |-> role]]
    /\ UNCHANGED <<projects, tasks, last, snap, interleaved, session, client>>

\* After await User.findByEmail(email): the 404, or addMember's check of the
\* loaded members list; the push is made on the loaded document.
RaceFind(r) ==
    /\ pc[r] = "find"
    /\ IF req[r].target = NoUser THEN ConcFinish(r, req[r].user, 404)
       ELSE IF addMemberThrows(req[r].doc, req[r].target)
       THEN ConcFinish(r, req[r].user, 400)
       ELSE /\ pc' = [pc EXCEPT ![r] = "save"]
            /\ req' = req
    /\ UNCHANGED <<projects, tasks, last, snap, interleaved, session, client>>

\* The stored project after save() of the document doc with the pushed entry.
RaceWritten(stored, doc, entry) ==
    LET saved == ProjectPreSave([doc EXCEPT !.members = Append(@, entry)])
    IN  [stored EXCEPT
            !.members = Append(@, entry),
            !.status = IF saved.status # doc.status THEN saved.status ELSE @,
            !.progress = IF saved.progress # doc.progress THEN saved.progress ELSE @]

\* return this.save(), then the response.
RaceSave(r) ==
    /\ pc[r] = "save"
    /\ projects' =
          IF req[r].id \in DOMAIN projects
          THEN [projects EXCEPT ![req[r].id] =
                    RaceWritten(@, req[r].doc,
                        [user |-> req[r].target, role |-> req[r].role])]
          ELSE projects
    /\ ConcFinish(r, req[r].user, 200)
    /\ UNCHANGED <<tasks, last, snap, interleaved, session, client>>

NextAddRace ==
    \/ \E r \in Reqs : RaceLoad(r)
    \/ \E r \in Reqs : RaceFind(r)
    \/ \E r \in Reqs : RaceSave(r)

SpecAddRace == InitAddRace /\ [][NextAddRace]_vars

(***************************************************************************)
(* Claims checked under SpecAddRace.                                       *)
(***************************************************************************)

\* C13: a user appears at most once in a project's members list, also when
\* two add-member requests for the same user interleave their load, check and
\* save steps.
C13_UserListedAtMostOnce ==
    \A p \in DOMAIN projects :
        \A i, j \in 1..Len(projects[p].members) :
            projects[p].members[i].user = projects[p].members[j].user => i = j

(***************************************************************************)
(* SpecCascade: two requests served concurrently, each a POST /api/tasks   *)
(* (the steps of SpecConc) or a DELETE /api/projects/:id, which yields     *)
(* after Project.findById (CascBegin runs the owner check), after          *)
(* Task.deleteMany (CascDeleteTasks) and after Project.findByIdAndDelete   *)
(* (CascDeleteProject).                                                    *)
(***************************************************************************)
InitCascade == InitConc

CascBegin(r) ==
    /\ pc[r] = "idle"
    /\ \E u \in ConcUsers, p \in ProjectIds :
          IF p \notin DOMAIN projects THEN ConcFinish(r, u, 404)
          ELSE IF ~MayDeleteProject(projects[p], u) THEN ConcFinish(r, u, 403)
          ELSE /\ pc' = [pc EXCEPT ![r] = "deleteTasks"]
               /\ req' = [req EXCEPT ![r] =
                     [user |-> u, id |-> p, code |-> 0, doc |-> projects[p]]]
    /\ UNCHANGED <<projects, tasks, last, snap, interleaved, session, client>>

\* await Task.deleteMany({ project: project._id })
CascDeleteTasks(r) ==
    /\ pc[r] = "deleteTasks"
    /\ tasks' = Restrict(tasks, DOMAIN tasks \ TasksOf(tasks, req[r].id))
    /\ pc' = [pc EXCEPT ![r] = "deleteProject"]
    /\ UNCHANGED <<projects, last, req, snap, interleaved, session, client>>

\* await Project.findByIdAndDelete(req.params.id), then the response.
CascDeleteProject(r) ==
    /\ pc[r] = "deleteProject"
    /\ projects' = Restrict(projects, DOMAIN projects \ {req[r].id})
    /\ ConcFinish(r, req[r].user, 200)
    /\ UNCHANGED <<tasks, last, snap, interleaved, session, client>>

NextCascade ==
    \/ \E r \in Reqs : ConcBegin(r)
    \/ \E r \in Reqs : ConcSave(r)
    \/ \E r \in Reqs : ConcRead(r)
    \/ \E r \in Reqs : ConcWrite(r)
    \/ \E r \in Reqs : CascBegin(r)
    \/ \E r \in Reqs : CascDeleteTasks(r)
    \/ \E r \in Reqs : CascDeleteProject(r)

SpecCascade == InitCascade /\ [][NextCascade]_vars

(***************************************************************************)
(* Claims checked under SpecCascade.                                       *)
(***************************************************************************)

\* No request is in flight.
CascQuiescent == \A r \in Reqs : pc[r] \in {"idle", "done"}

\* C17: whenever no request is in flight, every stored task references a
\* project that exists, also when a task creation interleaves with the
\* deletion of its project.
C17_NoTaskOutlivesItsProject ==
    CascQuiescent => \A t \in DOMAIN tasks : tasks[t].project \in DOMAIN projects

(***************************************************************************)
(* SpecSubtasks: the subtask methods of one task.  The task starts with    *)
(* any status, progress and subtask list: PUT /api/tasks/:id stores any    *)
(* status and progress without running a hook, and the subtask list of a   *)
(* todo task is built by add and toggle while its progress stays 0.        *)
(***************************************************************************)
SubtasksCap == MaxSubtasks + 2

SubtaskLists == UNION {[1..n -> BOOLEAN] : n \in 0..SubtasksCap}

SubtasksProgress == {0, 40, 100}

InitSubtasks ==
    /\ projects = ("p1" :> ProjectPreSave(NewProject("u1", [valid |-> TRUE])))
    /\ \E status \in TaskStatuses, progress \in SubtasksProgress, subtasks \in SubtaskLists :
          tasks = ("t1" :> [NewTask("u1", [valid |-> TRUE, project |-> "p1"]) EXCEPT
                               !.status = status,
                               !.progress = progress,
                               !.subtasks = subtasks,
                               !.updatedAt = 1])
    /\ last = NoRequest
    /\ ConcIdle
    /\ SessionIdle
    /\ ClientIdle

SubtasksToggle ==
    /\ \E i \in 1..SubtasksCap, d \in Dates : ToggleSubtask("u1", "t1", i, d)
    /\ UNCHANGED <<conc, session, client>>

SubtasksRecompute ==
    /\ \E d \in Dates : RecomputeProgress("t1", d)
    /\ UNCHANGED <<conc, session, client>>

NextSubtasks ==
    \/ SubtasksToggle
    \/ SubtasksRecompute

SpecSubtasks == InitSubtasks /\ [][NextSubtasks]_vars

(***************************************************************************)
(* Claims checked under SpecSubtasks.                                      *)
(***************************************************************************)

\* round(100 * completed / total) of a non-empty list of completion flags.
RoundedPercentage(flags) ==
    LET c == Cardinality({i \in 1..Len(flags) : flags[i]})
    IN  (200 * c + Len(flags)) \div (2 * Len(flags))

\* The step is a served subtask toggle of a stored task.
TogglesSubtask ==
    last'.op = "toggleSubtask" /\ last'.code = 200 /\ last'.id \in DOMAIN tasks

\* The step is a call of updateProgressFromSubtasks on a stored task.
Recomputes ==
    last'.op = "updateProgressFromSubtasks" /\ last'.id \in DOMAIN tasks

RecomputesAgain ==
    Recomputes /\ last.op = "updateProgressFromSubtasks" /\ last.id = last'.id

\* C19 as stated: a second call of updateProgressFromSubtasks leaves the
\* task's progress and every other task field as the first call left them.
C19_SecondRecomputeChangesNoField ==
    [][RecomputesAgain => tasks'[last'.id] = tasks[last'.id]]_vars

\* C19 amended: a second call of updateProgressFromSubtasks leaves the task's
\* progress and every other task field but updatedAt as the first call left
\* them; updatedAt too is left alone unless the status rule overrides the
\* subtask percentage (a todo or completed task whose percentage is not the
\* progress its status fixes).
C19_RecomputeIsIdempotent ==
    [][RecomputesAgain =>
          LET before == tasks[last'.id]
              after == tasks'[last'.id]
              overridden ==
                  /\ Len(before.subtasks) > 0
                  /\ before.status \in {"todo", "completed"}
                  /\ RoundedPercentage(before.subtasks) # before.progress
          IN  /\ [after EXCEPT !.updatedAt = before.updatedAt] = before
              /\ ~overridden => after.updatedAt = before.updatedAt
              /\ projects' = projects
       ]_vars

\* C19 witness: a call has stored the subtask percentage 67 for an in-review
\* task.
C19_RecomputedTwoOfThree ==
    /\ last.op = "updateProgressFromSubtasks" /\ last.id \in DOMAIN tasks
    /\ tasks[last.id].status = "in-review"
    /\ Len(tasks[last.id].subtasks) = 3
    /\ completedSubtasksCount(tasks[last.id]) = 2
    /\ tasks[last.id].progress = 67

\* C20: for a task with an empty subtask list subtasksProgress is 100, and a
\* call of updateProgressFromSubtasks leaves the stored progress to the status
\* rules: unchanged for in-progress, in-review and cancelled, 100 for
\* completed, 0 for todo.
C20_EmptyListDoesNotOverwriteProgress ==
    [][(Recomputes /\ Len(tasks[last'.id].subtasks) = 0) =>
          LET before == tasks[last'.id]
              after == tasks'[last'.id]
          IN  /\ subtasksProgress(before) = 100
              /\ after.subtasks = <<>>
              /\ after.status = before.status
              /\ after.progress =
                    IF before.status = "completed" THEN 100
                    ELSE IF before.status = "todo" THEN 0
                    ELSE before.progress
       ]_vars

\* C20 witness: a call on a cancelled task without subtasks left its progress
\* at 40.
C20_EmptyListKeepsForty ==
    /\ last.op = "updateProgressFromSubtasks" /\ last.id \in DOMAIN tasks
    /\ tasks[last.id].status = "cancelled"
    /\ tasks[last.id].subtasks = <<>>
    /\ tasks[last.id].progress = 40

(***************************************************************************)
(* GET /api/dashboard/stats over a snapshot of stored tasks.               *)
(***************************************************************************)
MaxTotal == 40

\* $or: [{ assignee: userId }, { creator: userId }], isArchived: false
CountedTasks(ts, u) ==
    {t \in DOMAIN ts : (ts[t].assignee = u \/ ts[t].creator = u) /\ ~ts[t].isArchived}

\* dueDate: { $lt: new Date() }, status: { $nin: ["completed", "cancelled"] };
\* a task without dueDate matches no $lt.
IsOverdue(task, now) ==
    /\ task.dueDate # NoDate
    /\ task.dueDate < now
    /\ task.status \notin {"completed", "cancelled"}

Metrics(totalTasks, completedTasks, overdueTasks) ==
    LET completionRate ==
            IF totalTasks > 0 THEN Percentage(completedTasks, totalTasks) ELSE 0
        overdueRate ==
            IF totalTasks > 0 THEN Percentage(overdueTasks, totalTasks) ELSE 0
    IN  [completionRate |-> completionRate,
         overdueRate |-> overdueRate,
         productivity |-> IF completionRate - overdueRate > 0
                          THEN completionRate - overdueRate ELSE 0]

\* GET /api/dashboard/stats, answered at time now.
GetStats(u, now) ==
    LET counted == CountedTasks(tasks, u)
        totalTasks == Cardinality(counted)
        completedTasks == Cardinality({t \in counted : tasks[t].status = "completed"})
        overdueTasks == Cardinality({t \in counted : IsOverdue(tasks[t], now)})
    IN  /\ last' = [op |-> "getStats", user |-> u, id |-> "none", target |-> NoUser,
                    valid |-> TRUE, code |-> 200, at |-> now,
                    data |-> [total |-> totalTasks, completed |-> completedTasks,
                              overdue |-> overdueTasks,
                              metrics |-> Metrics(totalTasks, completedTasks,
                                                  overdueTasks)]]
        /\ UNCHANGED store

\* The task POST /api/tasks stores for this body at date 1.
StatsTask(u, body) ==
    TaskPreSave(Timestamped(NewTask(u, body), TRUE, 1), TRUE, 1)

\* u1 created total tasks in p1: completed of them completed, overdue of them
\* open and due at date 1, the others open without a due date; u2 created one.
InitStats ==
    \E total \in 0..MaxTotal :
    \E completed \in 0..total :
    \E overdue \in 0..(total - completed) :
        /\ projects = ("p1" :> addMember(ProjectPreSave(NewProject("u1", [valid |-> TRUE])),
                                         "u2", "member"))
        /\ tasks = [i \in 0..total |->
                       IF i = 0
                       THEN StatsTask("u2", [valid |-> TRUE, project |-> "p1",
                                             status |-> "completed"])
                       ELSE IF i <= completed
                       THEN StatsTask("u1", [valid |-> TRUE, project |-> "p1",
                                             status |-> "completed"])
                       ELSE IF i <= completed + overdue
                       THEN StatsTask("u1", [valid |-> TRUE, project |-> "p1",
                                             dueDate |-> 1])
                       ELSE StatsTask("u1", [valid |-> TRUE, project |-> "p1"])]
        /\ last = NoRequest
        /\ ConcIdle
        /\ SessionIdle
        /\ ClientIdle

StatsGetStats ==
    /\ \E u \in {"u1", "u2"}, now \in Dates : GetStats(u, now)
    /\ UNCHANGED <<conc, session, client>>

SpecStats == InitStats /\ [][StatsGetStats]_vars

\* The tasks of the snapshot that the statistics of user u are about.
SnapshotOf(u) ==
    {t \in DOMAIN tasks : (tasks[t].assignee = u \/ tasks[t].creator = u)
                          /\ ~tasks[t].isArchived}

SnapshotCompleted(u) == {t \in SnapshotOf(u) : tasks[t].status = "completed"}

SnapshotOverdue(u, now) ==
    {t \in SnapshotOf(u) : /\ tasks[t].dueDate # NoDate
                           /\ tasks[t].dueDate < now
                           /\ tasks[t].status \notin {"completed", "cancelled"}}

\* round(100 * count / total), 0 when total = 0.
RoundedRate(count, total) == IF total = 0 THEN 0 ELSE (200 * count + total) \div (2 * total)

\* C21: for every snapshot of a user's tasks, the statistics answer carries
\* completionRate = round(100 * completed / total) and overdueRate =
\* round(100 * overdue / total), both 0 when total = 0, and productivity =
\* max(0, completionRate - overdueRate); all three lie in 0..100.
C21_StatsRatesAreRoundedPercentages ==
    last.op = "getStats" =>
        LET total == Cardinality(SnapshotOf(last.user))
            completed == Cardinality(SnapshotCompleted(last.user))
            overdue == Cardinality(SnapshotOverdue(last.user, last.at))
            metrics == last.data.metrics
        IN  /\ metrics.completionRate = RoundedRate(completed, total)
            /\ metrics.overdueRate = RoundedRate(overdue, total)
            /\ metrics.productivity =
                   IF metrics.completionRate > metrics.overdueRate
                   THEN metrics.completionRate - metrics.overdueRate ELSE 0
            /\ metrics.completionRate \in 0..100
            /\ metrics.overdueRate \in 0..100
            /\ metrics.productivity \in 0..100

\* What does hold of the answer: each rate is an integer within one half of
\* 100 * count / total, 0 when total = 0, and the rest of C21 as stated.
C21_StatsRatesWithinHalf ==
    last.op = "getStats" =>
        LET total == Cardinality(SnapshotOf(last.user))
            completed == Cardinality(SnapshotCompleted(last.user))
            overdue == Cardinality(SnapshotOverdue(last.user, last.at))
            metrics == last.data.metrics
            Near(rate, count) ==
                IF total = 0 THEN rate = 0
                ELSE /\ 2 * (rate * total - 100 * count) <= total
                     /\ 2 * (100 * count - rate * total) <= total
        IN  /\ Near(metrics.completionRate, completed)
            /\ Near(metrics.overdueRate, overdue)
            /\ metrics.productivity =
                   IF metrics.completionRate > metrics.overdueRate
                   THEN metrics.completionRate - metrics.overdueRate ELSE 0
            /\ metrics.completionRate \in 0..100
            /\ metrics.overdueRate \in 0..100
            /\ metrics.productivity \in 0..100

\* C22: startedAt is set once a task's status has become "in-progress" (at
\* creation or by a later status update), and once set it is never
\* overwritten, also when the task leaves and re-enters "in-progress".
C22_StartedAtSetOnceAndKept ==
    /\ [](\A t \in DOMAIN tasks :
            tasks[t].status = "in-progress" => tasks[t].startedAt # NoDate)
    /\ [][\A t \in DOMAIN tasks \cap DOMAIN tasks' :
            tasks[t].startedAt # NoDate =>
                tasks'[t].startedAt = tasks[t].startedAt]_vars

\* The second half of C22 alone: a startedAt that is set is kept.
C22_StartedAtKept ==
    [][\A t \in DOMAIN tasks \cap DOMAIN tasks' :
            tasks[t].startedAt # NoDate =>
                tasks'[t].startedAt = tasks[t].startedAt]_vars

\* A task that left "in-progress" and re-entered it at a later date.
C22_ReenteredInProgress ==
    \E t \in DOMAIN tasks :
        /\ tasks[t].status = "in-progress"
        /\ tasks[t].startedAt # NoDate
        /\ tasks[t].updatedAt > tasks[t].startedAt

(***************************************************************************)
(* POST /api/tasks while the membership of the project changes.            *)
(***************************************************************************)
\* p1 is owned by u1 and lists u2; u3 is a stranger.
InitCreate ==
    /\ projects = ("p1" :> addMember(ProjectPreSave(NewProject("u1", [valid |-> TRUE])),
                                     "u2", "member"))
    /\ tasks = <<>>
    /\ last = NoRequest
    /\ ConcIdle
    /\ SessionIdle
    /\ ClientIdle

CreateCreateTask ==
    /\ \E u \in Users :
       \E body \in TaskCreateBodies({"todo"}, Users)
                   \cup {[valid |-> FALSE, project |-> "p1"]} :
          CreateTask(u, body, 1, TaskIds)
    /\ UNCHANGED <<conc, session, client>>

CreateAddMember ==
    /\ \E target \in {"u2", "u3"} :
          AddMember("u1", "p1", target, "member", TRUE, MembersCap)
    /\ UNCHANGED <<conc, session, client>>

CreateRemoveMember ==
    /\ \E target \in {"u2", "u3"} : RemoveMember("u1", "p1", target)
    /\ UNCHANGED <<conc, session, client>>

SpecCreate ==
    InitCreate /\ [][CreateCreateTask \/ CreateAddMember \/ CreateRemoveMember]_vars

\* C23: a well-formed POST /api/tasks naming a stored project is answered 403
\* when the requester is neither owner nor listed member of the project; a
\* request that is not answered 201 stores no task; a request answered 201
\* comes from the owner or a listed member and stores exactly one new task,
\* whose creator is the requester and whose assignee is the supplied assignee,
\* or the requester when none is supplied.
C23_TaskCreatedOnlyByMember ==
    [][last'.op = "createTask" =>
          /\ last'.code # 201 => tasks' = tasks
          /\ (/\ last'.valid
              /\ last'.code # 201
              /\ last'.id \in DOMAIN projects
              /\ ~ListedOrOwner(projects[last'.id], last'.user)) => last'.code = 403
          /\ last'.code = 201 =>
                /\ last'.id \notin DOMAIN tasks
                /\ DOMAIN tasks' = DOMAIN tasks \cup {last'.id}
                /\ \A t \in DOMAIN tasks : tasks'[t] = tasks[t]
                /\ tasks'[last'.id].project \in DOMAIN projects
                /\ ListedOrOwner(projects[tasks'[last'.id].project], last'.user)
                /\ tasks'[last'.id].creator = last'.user
                /\ tasks'[last'.id].assignee =
                       IF last'.target # NoUser THEN last'.target ELSE last'.user
       ]_vars

\* A listed member created a task for another member, and a task of a member
\* who has since been removed is still stored.
C23_MemberAssignedOtherMember ==
    /\ last.op = "createTask"
    /\ last.code = 201
    /\ last.user = "u3"
    /\ tasks[last.id].creator = "u3"
    /\ tasks[last.id].assignee = "u1"
    /\ \E t \in DOMAIN tasks : tasks[t].creator = "u2" /\ ~ListedOrOwner(projects["p1"], "u2")

\* The stranger's request was answered 403.
C23_StrangerDenied ==
    /\ last.op = "createTask"
    /\ last.code = 403
    /\ last.user = "u3"
    /\ last.target = "u1"

(***************************************************************************)
(* middleware/auth.js in front of the project, task and dashboard routes.  *)
(***************************************************************************)
\* A variant of authMiddleware without the isActive check.
authMiddlewareDeactivatedPass(c) ==
    IF c.kind # "bearer" THEN NoUser
    ELSE IF c.at >= c.exp THEN NoUser
    ELSE IF c.user \notin DOMAIN users THEN NoUser
    ELSE c.user

\* authMiddleware: req.userId when next() is called, NoUser when it answers
\* 401. jwt.verify throws JsonWebTokenError for a token it cannot verify and
\* TokenExpiredError once the clock has reached exp.
authMiddleware(c) ==
    IF c.kind \in {"none", "basic"} THEN NoUser
    ELSE IF c.kind = "empty" THEN NoUser
    ELSE IF c.kind = "malformed" THEN NoUser
    ELSE IF c.at >= c.exp THEN NoUser
    ELSE IF c.user \notin DOMAIN users THEN NoUser
    ELSE IF ~users[c.user].isActive THEN NoUser
    ELSE c.user

\* router.use(authMiddleware): the route's handler (the step handler, run
\* with req.userId = authMiddleware(c)) runs, or the middleware answers 401
\* and the handler does not run.
Authenticated(op, id, c, handler) ==
    /\ cred' = c
    /\ IF authMiddleware(c) = NoUser
       THEN Reject(op, NoUser, id, 401)
       ELSE handler
    /\ UNCHANGED <<conc, users, client>>

\* The Authorization headers of the requests, sent at a time in Dates; tokens
\* are those generateToken signed for u1 and u2.
AuthCredentials ==
    [kind : {"none", "basic", "empty", "malformed"}, user : {NoUser},
     exp : {NoDate}, at : Dates]
    \cup [kind : {"bearer"}, user : {"u1", "u2"}, exp : {MaxDate, MaxDate + 1},
          at : Dates]

\* p1 of u1 lists u2 and holds t1; u1 and u2 each are active, deactivated or
\* deleted since their tokens were signed.
InitAuth ==
    /\ projects = ("p1" :> addMember(ProjectPreSave(NewProject("u1", [valid |-> TRUE])),
                                     "u2", "member"))
    /\ tasks = ("t1" :> StatsTask("u1", [valid |-> TRUE, project |-> "p1"]))
    /\ last = NoRequest
    /\ ConcIdle
    /\ \E D \in SUBSET {"u1", "u2"} : users \in [D -> [isActive : BOOLEAN]]
    /\ cred = NoCredential
    /\ ClientIdle

AuthUpdateTask ==
    \E c \in AuthCredentials :
        Authenticated("updateTask", "t1", c,
            UpdateTask(authMiddleware(c), "t1",
                       [valid |-> TRUE, status |-> "completed"], c.at))

AuthDeleteTask ==
    \E c \in AuthCredentials :
        Authenticated("deleteTask", "t1", c, DeleteTask(authMiddleware(c), "t1"))

AuthUpdateProject ==
    \E c \in AuthCredentials :
        Authenticated("updateProject", "p1", c,
            UpdateProject(authMiddleware(c), "p1",
                          [valid |-> TRUE, status |-> "active"]))

AuthGetStats ==
    \E c \in AuthCredentials :
        Authenticated("getStats", "none", c, GetStats(authMiddleware(c), c.at))

SpecAuth ==
    InitAuth /\ [][AuthUpdateTask \/ AuthDeleteTask \/ AuthUpdateProject
                     \/ AuthGetStats]_vars

\* The request carries a Bearer token that verifies at the time of the
\* request and whose user is stored and active.
CarriesGoodToken(c) ==
    /\ c.kind = "bearer"
    /\ c.at < c.exp
    /\ c.user \in DOMAIN users
    /\ users[c.user].isActive

\* C24: a request to a project, task or dashboard route reaches its handler
\* only if it carries a Bearer token that verifies and whose user exists and
\* is active; every other request (no header, a non-Bearer header, an invalid
\* or expired token, a deleted or deactivated user) is answered 401, its
\* handler is not run and no stored state changes.
C24_HandlerOnlyBehindGoodToken ==
    [][last'.op # "none" =>
          /\ ~CarriesGoodToken(cred') =>
                (last'.code = 401 /\ last'.user = NoUser /\ UNCHANGED <<store, users>>)
          /\ last'.code # 401 =>
                (CarriesGoodToken(cred') /\ last'.user = cred'.user)
          /\ CarriesGoodToken(cred') => last'.code # 401
       ]_vars

\* A token that verifies, of a deactivated user, was answered 401 while the
\* task it would have deleted is still stored.
C24_DeactivatedUserRejected ==
    /\ cred.kind = "bearer"
    /\ cred.at < cred.exp
    /\ cred.user \in DOMAIN users
    /\ ~users[cred.user].isActive
    /\ cred.user = "u1"
    /\ last.op = "deleteTask"
    /\ last.code = 401
    /\ "t1" \in DOMAIN tasks

(***************************************************************************)
(* The read routes GET /api/tasks/<segment> and                            *)
(* GET /api/dashboard/recent-activity over stored tasks.                   *)
(***************************************************************************)
\* The routes of routes/tasks.js in the order router.get / post / put / delete
\* registers them; a path is its sequence of segments.
TaskRoutes ==
    << [method |-> "GET", path |-> <<>>],
       [method |-> "GET", path |-> <<":id">>],
       [method |-> "POST", path |-> <<>>],
       [method |-> "PUT", path |-> <<":id">>],
       [method |-> "DELETE", path |-> <<":id">>],
       [method |-> "POST", path |-> <<":id", "comments">>],
       [method |-> "POST", path |-> <<":id", "subtasks">>],
       [method |-> "PUT", path |-> <<":id", "subtasks", ":subtaskId">>],
       [method |-> "GET", path |-> <<"overdue">>] >>

\* express: the first registered route whose method and path match; a
\* parameter segment matches every segment. 0: no route of this router.
Dispatch(method, path) ==
    LET Matches(r) ==
            /\ r.method = method
            /\ Len(r.path) = Len(path)
            /\ \A i \in 1..Len(path) :
                  r.path[i] \in {":id", ":subtaskId"} \/ r.path[i] = path[i]
        hits == {i \in 1..Len(TaskRoutes) : Matches(TaskRoutes[i])}
    IN  IF hits = {} THEN 0 ELSE CHOOSE i \in hits : \A j \in hits : i <= j

\* Task.findOverdue(userId) at time now.
findOverdue(u, now) == {t \in CountedTasks(tasks, u) : IsOverdue(tasks[t], now)}

\* GET /api/tasks/<segment>: the handler of the route the request is
\* dispatched to. Task.findById of a segment that is no stored id (also one
\* that is no ObjectId at all) ends in the 404 of GET /:id.
GetTasksRoute(u, segment, now) ==
    LET route == TaskRoutes[Dispatch("GET", <<segment>>)].path
    IN  IF route = <<":id">> THEN GetTask(u, segment)
        ELSE /\ route = <<"overdue">>
             /\ last' = [op |-> "getOverdue", user |-> u, id |-> segment,
                         target |-> NoUser, valid |-> TRUE, code |-> 200,
                         at |-> now, data |-> findOverdue(u, now)]
             /\ UNCHANGED store

\* GET /api/dashboard/recent-activity?limit=: the object literal of the query
\* names $or twice, so the filter find() receives holds the second $or (the
\* dates) and isArchived only. createdAt <= updatedAt, so the date filter is
\* updatedAt >= now - RecentWindow. The answer holds the limit most recently
\* updated matches.
GetRecentActivity(u, now, limit) ==
    LET found == {t \in DOMAIN tasks : /\ tasks[t].updatedAt >= now - RecentWindow
                                       /\ ~tasks[t].isArchived}
        size == IF Cardinality(found) < limit THEN Cardinality(found) ELSE limit
    IN  /\ \E S \in SUBSET found :
              /\ Cardinality(S) = size
              /\ \A a \in S, b \in found \ S : tasks[a].updatedAt >= tasks[b].updatedAt
              /\ last' = [op |-> "getRecentActivity", user |-> u, id |-> "none",
                          target |-> NoUser, valid |-> TRUE, code |-> 200,
                          at |-> now, data |-> S]
        /\ UNCHANGED store

\* p1 of u1 lists u2; u1 and u2 each created one task: open or completed,
\* with or without a due date.
InitReads ==
    /\ projects = ("p1" :> addMember(ProjectPreSave(NewProject("u1", [valid |-> TRUE])),
                                     "u2", "member"))
    /\ \E b1, b2 \in TaskCreateBodies({"todo", "completed"}, {"u1", "u2"})
                     \cup {[valid |-> TRUE, project |-> "p1", dueDate |-> 1]} :
          tasks = ("t1" :> StatsTask("u1", b1)) @@ ("t2" :> StatsTask("u2", b2))
    /\ last = NoRequest
    /\ ConcIdle
    /\ SessionIdle
    /\ ClientIdle

ReadsGetTasksRoute ==
    /\ \E u \in Users, segment \in {"t1", "overdue"}, now \in Dates :
          GetTasksRoute(u, segment, now)
    /\ UNCHANGED <<conc, session, client>>

ReadsGetRecentActivity ==
    /\ \E u \in Users, now \in 1..(MaxDate + 1), limit \in {1, 10} :
          GetRecentActivity(u, now, limit)
    /\ UNCHANGED <<conc, session, client>>

SpecReads == InitReads /\ [][ReadsGetTasksRoute \/ ReadsGetRecentActivity]_vars

\* C25: a GET /api/tasks/overdue request is served by the overdue handler,
\* which answers with the requester's overdue tasks: due date in the past,
\* status neither completed nor cancelled, not archived.
C25_OverdueRequestReachesOverdueHandler ==
    [][(last'.op \in {"getTask", "getOverdue"} /\ last'.id = "overdue") =>
          /\ last'.op = "getOverdue"
          /\ last'.code = 200
          /\ last'.data =
                {t \in DOMAIN tasks :
                    /\ tasks[t].assignee = last'.user \/ tasks[t].creator = last'.user
                    /\ tasks[t].dueDate # NoDate
                    /\ tasks[t].dueDate < last'.at
                    /\ tasks[t].status \notin {"completed", "cancelled"}
                    /\ ~tasks[t].isArchived}
       ]_vars

\* C27: every task GET /api/dashboard/recent-activity returns has the
\* requester as assignee or creator.
C27_RecentActivityOnlyOwnTasks ==
    last.op = "getRecentActivity" =>
        \A t \in last.data :
            tasks[t].assignee = last.user \/ tasks[t].creator = last.user

\* C26: a stored project whose progress is 100 has status "completed", and a
\* stored project whose progress is greater than 0 does not have status
\* "planning".
C26_ProjectStatusFollowsProgress ==
    \A p \in DOMAIN projects :
        /\ projects[p].progress = 100 => projects[p].status = "completed"
        /\ projects[p].progress > 0 => projects[p].status # "planning"

(***************************************************************************)
(* PUT /api/tasks/:id on a task that has a comment and subtasks.           *)
(***************************************************************************)
\* p1 of u1 lists u2; u1 created t1, which got a subtask and a comment and is
\* in progress.
InitUpdate ==
    /\ projects = ("p1" :> addMember(ProjectPreSave(NewProject("u1", [valid |-> TRUE])),
                                     "u2", "member"))
    /\ tasks = ("t1" :> [StatsTask("u1", [valid |-> TRUE, project |-> "p1",
                                          status |-> "in-progress"])
                            EXCEPT !.subtasks = <<FALSE>>, !.comments = <<"u2">>])
    /\ last = NoRequest
    /\ ConcIdle
    /\ SessionIdle
    /\ ClientIdle

UpdateUpdateTask ==
    /\ \E u \in Users, t \in TaskIds, date \in Dates :
       \E body \in TaskUpdateBodies({"todo", "completed"}, {50, 101}, {"u2", "u3"})
                   \cup {[valid |-> TRUE, dueDate |-> 2], [valid |-> FALSE, status |-> "todo"]} :
          UpdateTask(u, t, body, date)
    /\ UNCHANGED <<conc, session, client>>

SpecUpdate == InitUpdate /\ [][UpdateUpdateTask]_vars

\* The fields PUT /api/tasks/:id accepts, of those a stored task has here.
StatedAllowedFields == {"assignee", "status", "dueDate", "progress"}

\* The fields of task t whose value the step changes.
ChangedFields(t) == {f \in DOMAIN tasks[t] : tasks'[t][f] # tasks[t][f]}

\* C30 as stated: an update changes only allowed fields that are present in
\* the request body; a rejected update changes nothing.
C30_UpdateChangesOnlyBodyFields ==
    [][last'.op = "updateTask" =>
          IF last'.code = 200
          THEN /\ last'.id \in DOMAIN tasks
               /\ DOMAIN tasks' = DOMAIN tasks
               /\ \A t \in DOMAIN tasks \ {last'.id} : tasks'[t] = tasks[t]
               /\ ChangedFields(last'.id) \subseteq last'.fields \cap StatedAllowedFields
               /\ projects' = projects
          ELSE UNCHANGED store
       ]_vars

\* C30 amended: an update changes only allowed fields that are present in the
\* request body, and the updatedAt timestamp; the task's project, creator,
\* comments, subtasks, dependencies and archived flag are unchanged; a
\* rejected update changes nothing.
C30_UpdateChangesOnlyBodyFieldsAndUpdatedAt ==
    [][last'.op = "updateTask" =>
          IF last'.code = 200
          THEN /\ last'.id \in DOMAIN tasks
               /\ DOMAIN tasks' = DOMAIN tasks
               /\ \A t \in DOMAIN tasks \ {last'.id} : tasks'[t] = tasks[t]
               /\ ChangedFields(last'.id) \subseteq
                      (last'.fields \cap StatedAllowedFields) \cup {"updatedAt"}
               /\ ChangedFields(last'.id) \cap
                      {"project", "creator", "comments", "subtasks", "dependencies",
                       "isArchived"} = {}
               /\ projects' = projects
          ELSE UNCHANGED store
       ]_vars

\* An update of the status alone was applied to a task that has a subtask and
\* a comment: it is completed, its progress and assignee are as before.
C30_StatusAloneUpdated ==
    /\ last.op = "updateTask"
    /\ last.code = 200
    /\ last.fields = {"status"}
    /\ tasks[last.id].status = "completed"
    /\ tasks[last.id].progress = 50
    /\ tasks[last.id].assignee = "u2"
    /\ tasks[last.id].subtasks = <<FALSE>>
    /\ tasks[last.id].comments = <<"u2">>

(***************************************************************************)
(* store/authStore.js: the actions of the auth store and the axios         *)
(* response interceptor. An action runs without interruption up to its     *)
(* await; the settling of the awaited request runs the interceptor and     *)
(* then the rest of the action as one step. s is the record of auth,       *)
(* header and calls.                                                       *)
(***************************************************************************)
\* The lowest call slot that awaits nothing, 0 when MaxCalls requests await.
FreeCall(s) ==
    LET free == {c \in 1..MaxCalls : s.calls[c].op = "none"}
    IN  IF free = {} THEN 0 ELSE CHOOSE c \in free : \A d \in free : c <= d

\* logout(), called at nesting depth nested: it awaits POST /auth/logout when
\* a token is stored, and otherwise runs its finally block at once.
logout(s, nested) ==
    IF s.auth.token # Null
    THEN [s EXCEPT !.calls[FreeCall(s)] =
                       [op |-> "logout", nested |-> nested, sent |-> s.header]]
    ELSE [s EXCEPT !.header = Null,
                   !.auth = [user |-> Null, token |-> Null,
                             isAuthenticated |-> FALSE, isLoading |-> FALSE]]

\* The rejection handler of axios.interceptors.response.use for an answer
\* with this status to a request made at nesting depth nested.
interceptor(s, status, nested) ==
    IF status = "401" /\ s.auth.isAuthenticated THEN logout(s, nested) ELSE s

\* The token generateToken signs for a user.
TokenOf(u) == IF u = "u1" THEN "token1" ELSE "token2"

\* A variant of settle in which the call ends without the rest of its action.
settleWithoutContinuation(s, k, status, u) ==
    [s EXCEPT !.calls[k] = [op |-> "none", nested |-> 0, sent |-> Null]]

\* The request call k awaits settles with status "ok", "error" (no answer, or
\* an error answer other than 401) or "401"; u is the user of a login or
\* register answer. The interceptor runs first, then the action continues
\* after its await; the call awaits nothing any more.
settle(s, k, status, u) ==
    LET call == s.calls[k]
        answered == [s EXCEPT !.calls[k] = [op |-> "none", nested |-> 0, sent |-> Null]]
        depth == IF call.op # "logout" THEN 0
                 ELSE IF call.nested < MaxCalls THEN call.nested + 1 ELSE MaxCalls
        i == IF status = "ok" THEN answered ELSE interceptor(answered, status, depth)
        cleared == [user |-> Null, token |-> Null, isAuthenticated |-> FALSE,
                    isLoading |-> FALSE]
        done == IF call.op \in {"login", "register"}
                THEN IF status = "ok"
                     THEN [i EXCEPT !.header = TokenOf(u),
                                    !.auth = [user |-> u, token |-> TokenOf(u),
                                              isAuthenticated |-> TRUE,
                                              isLoading |-> FALSE]]
                     ELSE [i EXCEPT !.auth.isLoading = FALSE]
                ELSE IF call.op = "logout"
                THEN [i EXCEPT !.header = Null, !.auth = cleared]
                ELSE IF status = "ok"
                THEN [i EXCEPT !.auth.user = IF call.sent = "token1" THEN "u1" ELSE "u2",
                               !.auth.isAuthenticated = TRUE,
                               !.auth.isLoading = FALSE]
                ELSE [i EXCEPT !.header = Null, !.auth = cleared]
    IN  done

\* login(credentials) / register(userData) up to the await.
StoreLogin ==
    /\ FreeCall([calls |-> calls]) # 0
    /\ \E op \in {"login", "register"} :
          calls' = [calls EXCEPT ![FreeCall([calls |-> calls])] =
                       [op |-> op, nested |-> 0, sent |-> header]]
    /\ auth' = [auth EXCEPT !.isLoading = TRUE]
    /\ UNCHANGED <<store, last, conc, session, header>>

\* verifyToken() up to the await, or to its return when no token is stored.
StoreVerifyToken ==
    /\ FreeCall([calls |-> calls]) # 0
    /\ IF auth.token = Null
       THEN /\ auth' = [auth EXCEPT !.isLoading = FALSE, !.isAuthenticated = FALSE]
            /\ UNCHANGED <<header, calls>>
       ELSE /\ header' = auth.token
            /\ calls' = [calls EXCEPT ![FreeCall([calls |-> calls])] =
                            [op |-> "verifyToken", nested |-> 0, sent |-> auth.token]]
            /\ auth' = auth
    /\ UNCHANGED <<store, last, conc, session>>

\* logout() called from the sidebar.
StoreLogout ==
    /\ FreeCall([calls |-> calls]) # 0
    /\ LET s == logout([auth |-> auth, header |-> header, calls |-> calls], 0)
       IN  /\ auth' = s.auth
           /\ header' = s.header
           /\ calls' = s.calls
    /\ UNCHANGED <<store, last, conc, session>>

\* A request of a page (not of the store) is answered 401.
StoreUnauthorized ==
    /\ FreeCall([calls |-> calls]) # 0
    /\ LET s == interceptor([auth |-> auth, header |-> header, calls |-> calls],
                            "401", 0)
       IN  /\ auth' = s.auth
           /\ header' = s.header
           /\ calls' = s.calls
    /\ UNCHANGED <<store, last, conc, session>>

\* The request of call k settles.
StoreSettle(k) ==
    /\ calls[k].op # "none"
    /\ \E status \in {"ok", "error", "401"}, u \in {"u1", "u2"} :
          LET s == settle([auth |-> auth, header |-> header, calls |-> calls],
                          k, status, u)
          IN  /\ auth' = s.auth
              /\ header' = s.header
              /\ calls' = s.calls
    /\ UNCHANGED <<store, last, conc, session>>

\* The store after rehydration: the persisted token and user of a session,
\* or none; isAuthenticated is not persisted.
InitStore ==
    /\ projects = <<>>
    /\ tasks = <<>>
    /\ last = NoRequest
    /\ ConcIdle
    /\ SessionIdle
    /\ \E u \in {Null, "u1"} :
          auth = [user |-> u, token |-> IF u = Null THEN Null ELSE TokenOf(u),
                  isAuthenticated |-> FALSE, isLoading |-> TRUE]
    /\ header = Null
    /\ calls = [c \in 1..MaxCalls |-> NoCall]

NextStore ==
    \/ StoreLogin
    \/ StoreVerifyToken
    \/ StoreLogout
    \/ StoreUnauthorized
    \/ \E k \in 1..MaxCalls : StoreSettle(k)

SpecStore == InitStore /\ [][NextStore]_vars

\* C28: in every reachable state of the auth store, isAuthenticated implies
\* token # null and user # null.
C28_AuthenticatedHasTokenAndUser ==
    auth.isAuthenticated => (auth.token # Null /\ auth.user # Null)

(***************************************************************************)
(* logout() in a session in which nobody logs in again: logout and         *)
(* verifyToken calls, 401 answers to page requests, and the answers to the *)
(* awaited requests, each of which arrives.                                *)
(***************************************************************************)
NextLogout ==
    \/ StoreLogout
    \/ StoreVerifyToken
    \/ StoreUnauthorized
    \/ \E k \in 1..MaxCalls : StoreSettle(k)

\* A user is logged in and no request awaits.
InitLogout ==
    /\ projects = <<>>
    /\ tasks = <<>>
    /\ last = NoRequest
    /\ ConcIdle
    /\ SessionIdle
    /\ \E u \in {"u1", "u2"} :
          /\ auth = [user |-> u, token |-> TokenOf(u), isAuthenticated |-> TRUE,
                     isLoading |-> FALSE]
          /\ header = TokenOf(u)
    /\ calls = [c \in 1..MaxCalls |-> NoCall]

\* Every awaited request settles.
SpecLogout ==
    /\ InitLogout
    /\ [][NextLogout]_vars
    /\ \A k \in 1..MaxCalls : WF_vars(StoreSettle(k))

\* user = null, token = null, isAuthenticated = false, isLoading = false, and
\* no Authorization header.
LoggedOut ==
    /\ auth = [user |-> Null, token |-> Null, isAuthenticated |-> FALSE,
               isLoading |-> FALSE]
    /\ header = Null

LogoutAwaits == \E c \in 1..MaxCalls : calls[c].op = "logout"

\* C29: every logout call ends, whatever the answer to POST /auth/logout, and
\* at its end the store is logged out; a 401 answer to a logout call starts
\* at most one nested logout, whose own 401 answer starts none.
C29_LogoutTerminatesLoggedOut ==
    /\ [][\A k \in 1..MaxCalls :
            (calls[k].op = "logout" /\ calls'[k] # calls[k]) => LoggedOut']_vars
    /\ [](\A c \in 1..MaxCalls : calls[c].nested <= 1)
    /\ LogoutAwaits ~> (~LogoutAwaits /\ LoggedOut)

\* The answer 401 to a logout call started a nested logout, which is
\* awaiting its own answer in a store that is already logged out.
C29_NestedLogoutAwaits ==
    /\ \E c \in 1..MaxCalls : calls[c].op = "logout" /\ calls[c].nested = 1
    /\ LoggedOut

=============================================================================
